---- MODULE Spec2Model ----
(***************************************************************************)
(* Model of the EC2 helper of p0tion (packages/actions/src/helpers/ec2.ts):*)
(* credential resolution, start-up command generation, instance creation,  *)
(* status polling and start / stop / terminate, against a compute provider *)
(* that owns the instances' states.                                        *)
(*                                                                         *)
(* JavaScript values are modelled as follows.                              *)
(*   - an optional value (T | undefined) is a tuple: << >> is undefined,   *)
(*     <<v>> is the value v;                                               *)
(*   - a string is a TLA+ string (ASCII: line feed and 32..126 but 96);    *)
(*   - a Date is a record [sec, ms]: seconds since the epoch and the       *)
(*     milliseconds within the second;                                     *)
(*   - the outcome of a call is a record [kind, name, message, value]:     *)
(*     kind "return" with the returned value, kind "throw" with the thrown *)
(*     error's name ("Error", "TypeError", ...) and message.               *)
(*                                                                         *)
(* The five operations that talk to the provider are async functions with  *)
(* one await: a call is two steps, the call up to `await ec2.send(...)`    *)
(* (the provider receives the request and handles it, the call joins the   *)
(* calls in flight) and the return once ec2.send has settled.  Nothing     *)
(* makes a caller await a call before the next: while a call is in flight  *)
(* any operation may be called, the calls in flight return in any order,   *)
(* and the provider goes on completing transitions.                        *)
(***************************************************************************)
EXTENDS Integers, Sequences, FiniteSets, Bags, TLC

VARIABLES
    env,        \* process.env: variable name -> optional string
    instState,  \* the provider's instances: instance id -> state name
    inflight,   \* the calls suspended at `await ec2.send(command)`: a bag of
                \* [op, request, what the provider did with the request]
    last,       \* the call that returned or threw last, with the settlement
                \* of ec2.send and the outcome; NoCall once a later call
                \* has been suspended
    caller      \* the end-to-end caller: its position and what it has seen

vars == <<env, instState, inflight, last, caller>>

----------------------------------------------------------------------------
(* Optional values *)

Undefined == << >>

Some(v) == <<v>>

IsDefined(o) == o # Undefined

\* JavaScript truthiness of an optional string: undefined and "" are falsy.
Truthy(o) == IsDefined(o) /\ o[1] # ""

----------------------------------------------------------------------------
(* Strings, bytes and base64 *)

\* The characters with codes 32..95 and 97..126, in code order.
Ascii32to95 == " !\"#$%&'()*+,-./0123456789:;<=>?@ABCDEFGHIJKLMNOPQRSTUVWXYZ[\\]^_"

Ascii97to126 == "abcdefghijklmnopqrstuvwxyz{|}~"

Base64Alphabet == "ABCDEFGHIJKLMNOPQRSTUVWXYZabcdefghijklmnopqrstuvwxyz0123456789+/"

CharAt(s, i) == SubSeq(s, i, i)

IndexOf(c, s) == CHOOSE i \in 1..Len(s) : CharAt(s, i) = c

\* The UTF-8 byte of each ASCII character of the model: line feed, and the
\* characters of the two tables by their positions.
CharCodes ==
    [c \in {"\n"} \cup {CharAt(Ascii32to95, i) : i \in 1..Len(Ascii32to95)}
                  \cup {CharAt(Ascii97to126, i) : i \in 1..Len(Ascii97to126)} |->
        IF c = "\n" THEN 10
        ELSE IF \E i \in 1..Len(Ascii32to95) : CharAt(Ascii32to95, i) = c
             THEN 31 + IndexOf(c, Ascii32to95)
             ELSE 96 + IndexOf(c, Ascii97to126)]

CharCode(c) == CharCodes[c]

\* Buffer.from(s): the bytes of the string.
BufferFrom(s) == [i \in 1..Len(s) |-> CharCode(CharAt(s, i))]

B64Char(n) == CharAt(Base64Alphabet, n + 1)

\* The four characters of the group of up to three bytes at bytes[i],
\* "=" padded when the bytes run out.
Base64Group(bytes, i) ==
    LET n  == Len(bytes) - i + 1
        b1 == bytes[i]
        b2 == IF n >= 2 THEN bytes[i + 1] ELSE 0
        b3 == IF n >= 3 THEN bytes[i + 2] ELSE 0
    IN  B64Char(b1 \div 4)
        \o B64Char((b1 % 4) * 16 + b2 \div 16)
        \o (IF n >= 2 THEN B64Char((b2 % 16) * 4 + b3 \div 64) ELSE "=")
        \o (IF n >= 3 THEN B64Char(b3 % 64) ELSE "=")

RECURSIVE Base64Groups(_, _, _)
\* The base64 text of the groups lo..hi (group g starts at byte 3g - 2).
Base64Groups(bytes, lo, hi) ==
    IF lo > hi THEN ""
    ELSE IF lo = hi THEN Base64Group(bytes, 3 * lo - 2)
    ELSE LET mid == (lo + hi) \div 2 IN
         Base64Groups(bytes, lo, mid) \o Base64Groups(bytes, mid + 1, hi)

\* buffer.toString('base64')
ToBase64(bytes) == Base64Groups(bytes, 1, (Len(bytes) + 2) \div 3)

RECURSIVE Join(_, _)
\* array.join(sep)
Join(arr, sep) ==
    IF Len(arr) = 0 THEN ""
    ELSE IF Len(arr) = 1 THEN arr[1]
    ELSE arr[1] \o sep \o Join(Tail(arr), sep)

StartsWith(s, p) == Len(s) >= Len(p) /\ SubSeq(s, 1, Len(p)) = p

----------------------------------------------------------------------------
(* Date.prototype.toISOString *)

Pad(n, width) ==
    LET s == ToString(n) IN
    IF Len(s) >= width THEN s ELSE SubSeq("0000", 1, width - Len(s)) \o s

\* The civil date of a day count since 1970-01-01 (proleptic Gregorian).
CivilFromDays(days) ==
    LET z   == days + 719468
        era == z \div 146097
        doe == z - era * 146097
        yoe == (doe - doe \div 1460 + doe \div 36524 - doe \div 146096) \div 365
        doy == doe - (365 * yoe + yoe \div 4 - yoe \div 100)
        mp  == (5 * doy + 2) \div 153
        d   == doy - (153 * mp + 2) \div 5 + 1
        m   == IF mp < 10 THEN mp + 3 ELSE mp - 9
        y   == yoe + era * 400 + (IF m <= 2 THEN 1 ELSE 0)
    IN  [year |-> y, month |-> m, day |-> d]

\* YYYY-MM-DDTHH:mm:ss.sssZ, in UTC.
ToISOString(date) ==
    LET c   == CivilFromDays(date.sec \div 86400)
        sod == date.sec % 86400
    IN  Pad(c.year, 4) \o "-" \o Pad(c.month, 2) \o "-" \o Pad(c.day, 2)
        \o "T" \o Pad(sod \div 3600, 2) \o ":" \o Pad((sod % 3600) \div 60, 2)
        \o ":" \o Pad(sod % 60, 2) \o "." \o Pad(date.ms, 3) \o "Z"

----------------------------------------------------------------------------
(* Outcomes of a call *)

Return(v) == [kind |-> "return", name |-> "", message |-> "", value |-> v]

Throw(name, message) ==
    [kind |-> "throw", name |-> name, message |-> message, value |-> Undefined]

\* Reading property prop of undefined.
TypeError(prop) ==
    Throw("TypeError", "Cannot read properties of undefined (reading '" \o prop \o "')")

----------------------------------------------------------------------------
(* getAWSVariables *)

EnvNames ==
    {"AWS_ACCESS_KEY_ID", "AWS_SECRET_ACCESS_KEY", "AWS_ROLE_ARN",
     "AWS_AMI_ID", "AWS_KEY_NAME", "AWS_REGION"}

MandatoryEnvNames == EnvNames \ {"AWS_REGION"}

ConfigurationError ==
    Throw("Error",
          "AWS related environment variables are not set. Please check your env file and try again.")

\* The mutant: only undefined counts as missing, an empty value passes.
getAWSVariablesUndefinedOnly(e) ==
    IF \/ ~IsDefined(e["AWS_ACCESS_KEY_ID"])
       \/ ~IsDefined(e["AWS_SECRET_ACCESS_KEY"])
       \/ ~IsDefined(e["AWS_ROLE_ARN"])
       \/ ~IsDefined(e["AWS_AMI_ID"])
       \/ ~IsDefined(e["AWS_KEY_NAME"])
    THEN ConfigurationError
    ELSE Return([accessKeyId     |-> e["AWS_ACCESS_KEY_ID"][1],
                 secretAccessKey |-> e["AWS_SECRET_ACCESS_KEY"][1],
                 region          |-> IF Truthy(e["AWS_REGION"])
                                     THEN e["AWS_REGION"][1] ELSE "us-east-1",
                 roleArn         |-> e["AWS_ROLE_ARN"][1],
                 amiId           |-> e["AWS_AMI_ID"][1],
                 keyName         |-> e["AWS_KEY_NAME"][1]])

getAWSVariables(e) ==
    IF \/ ~Truthy(e["AWS_ACCESS_KEY_ID"])
       \/ ~Truthy(e["AWS_SECRET_ACCESS_KEY"])
       \/ ~Truthy(e["AWS_ROLE_ARN"])
       \/ ~Truthy(e["AWS_AMI_ID"])
       \/ ~Truthy(e["AWS_KEY_NAME"])
    THEN ConfigurationError
    ELSE Return([accessKeyId     |-> e["AWS_ACCESS_KEY_ID"][1],
                 secretAccessKey |-> e["AWS_SECRET_ACCESS_KEY"][1],
                 region          |-> IF Truthy(e["AWS_REGION"])
                                     THEN e["AWS_REGION"][1] ELSE "us-east-1",
                 roleArn         |-> e["AWS_ROLE_ARN"][1],
                 amiId           |-> e["AWS_AMI_ID"][1],
                 keyName         |-> e["AWS_KEY_NAME"][1]])

----------------------------------------------------------------------------
(* generateVMCommand *)

\* The mutant: the verification is pushed before the last download.
generateVMCommandVerifyEarly(r1csPath, zKeyPath, ptauPath, verificationTranscriptPath) ==
    << "#!/usr/bin/env bash",
       "sudo apt update",
       "sudo apt install awscli -y",
       "curl -o- https://raw.githubusercontent.com/nvm-sh/nvm/v0.39.3/install.sh | bash",
       "nvm install 16",
       "nvm use 16",
       "npm install -g snarkjs",
       "aws s3 cp s3://" \o r1csPath \o " /tmp/circuit.r1cs",
       "aws s3 cp s3://" \o zKeyPath \o " /tmp/zkey.zkey",
       "snarkjs zkey verify circuit.r1cs ptau.ptau zkey.zkey > /tmp/verify.txt",
       "aws s3 cp s3://" \o ptauPath \o " /tmp/ptau.ptau",
       "aws s3 cp /tmp/verify.txt s3://" \o verificationTranscriptPath >>

generateVMCommand(r1csPath, zKeyPath, ptauPath, verificationTranscriptPath) ==
    << "#!/usr/bin/env bash",
       "sudo apt update",
       "sudo apt install awscli -y",
       "curl -o- https://raw.githubusercontent.com/nvm-sh/nvm/v0.39.3/install.sh | bash",
       "nvm install 16",
       "nvm use 16",
       "npm install -g snarkjs",
       "aws s3 cp s3://" \o r1csPath \o " /tmp/circuit.r1cs",
       "aws s3 cp s3://" \o zKeyPath \o " /tmp/zkey.zkey",
       "aws s3 cp s3://" \o ptauPath \o " /tmp/ptau.ptau",
       "snarkjs zkey verify circuit.r1cs ptau.ptau zkey.zkey > /tmp/verify.txt",
       "aws s3 cp /tmp/verify.txt s3://" \o verificationTranscriptPath >>

----------------------------------------------------------------------------
(* createEC2Client *)

createEC2Client(e) ==
    LET v == getAWSVariables(e) IN
    IF v.kind = "throw" THEN v
    ELSE Return([credentials |-> [accessKeyId     |-> v.value.accessKeyId,
                                  secretAccessKey |-> v.value.secretAccessKey],
                 region      |-> v.value.region])

----------------------------------------------------------------------------
(* createEC2Instance *)

HttpOk == 200

\* The command list createEC2Instance sends ("@note Test only").
commands ==
    << "#!/usr/bin/env bash",
       "sudo apt update",
       "sudo apt install awscli -y",
       "touch /tmp/test.txt",
       "echo 'hello world' > /tmp/test.txt",
       "aws s3 cp /tmp/test.txt s3://p0tion-test-bucket/test.txt" >>

UserData == ToBase64(BufferFrom(Join(commands, "\n")))

\* The RunInstances parameters, from the value getAWSVariables returned.
createEC2InstanceParams(v) ==
    [ImageId            |-> v.amiId,
     InstanceType       |-> "t2.micro",
     MaxCount           |-> 1,
     MinCount           |-> 1,
     KeyName            |-> v.keyName,
     IamInstanceProfile |-> [Arn |-> v.roleArn],
     UserData           |-> UserData]

ProvisioningError == Throw("Error", "Could not create a new EC2 instance")

\* The mutant: every status below 300 passes for success.
createEC2InstanceResultAny2xx(response) ==
    IF ~(IsDefined(response.httpStatusCode) /\ response.httpStatusCode[1] < 300)
    THEN ProvisioningError
    ELSE IF ~IsDefined(response.Instances) THEN TypeError("0")
    ELSE IF Len(response.Instances[1]) = 0 THEN TypeError("InstanceId")
    ELSE LET i == response.Instances[1][1] IN
         IF ~IsDefined(i.LaunchTime) THEN TypeError("toISOString")
         ELSE Return([InstanceId   |-> i.InstanceId,
                      ImageId      |-> i.ImageId,
                      InstanceType |-> i.InstanceType,
                      KeyName      |-> i.KeyName,
                      LaunchTime   |-> Some(ToISOString(i.LaunchTime[1]))])

\* What createEC2Instance does with the provider's response.
createEC2InstanceResult(response) ==
    IF response.httpStatusCode # Some(HttpOk) THEN ProvisioningError
    ELSE IF ~IsDefined(response.Instances) THEN TypeError("0")
    ELSE IF Len(response.Instances[1]) = 0 THEN TypeError("InstanceId")
    ELSE LET i == response.Instances[1][1] IN
         IF ~IsDefined(i.LaunchTime) THEN TypeError("toISOString")
         ELSE Return([InstanceId   |-> i.InstanceId,
                      ImageId      |-> i.ImageId,
                      InstanceType |-> i.InstanceType,
                      KeyName      |-> i.KeyName,
                      LaunchTime   |-> Some(ToISOString(i.LaunchTime[1]))])

----------------------------------------------------------------------------
(* checkEC2Status, startEC2Instance, stopEC2Instance, terminateEC2Instance *)

\* The request of the four operations on an existing instance.
InstanceRequest(instanceId) == [InstanceIds |-> <<instanceId>>, DryRun |-> FALSE]

\* DescribeInstanceStatus carries no DryRun.
DescribeRequest(instanceId) == [InstanceIds |-> <<instanceId>>]

QueryError == Throw("Error", "Could not get the status of the EC2 instance")

\* The mutant: any reported state name counts as running.
checkEC2StatusResultAnyName(response) ==
    IF response.httpStatusCode # Some(HttpOk) THEN QueryError
    ELSE IF ~IsDefined(response.InstanceStatuses) THEN TypeError("0")
    ELSE IF Len(response.InstanceStatuses[1]) = 0 THEN TypeError("InstanceState")
    ELSE LET s == response.InstanceStatuses[1][1] IN
         IF ~IsDefined(s.InstanceState) THEN TypeError("Name")
         ELSE Return(IsDefined(s.InstanceState[1].Name))

\* The mutant: optional chaining, so that a missing entry reads as not running.
checkEC2StatusResultOptionalChaining(response) ==
    IF response.httpStatusCode # Some(HttpOk) THEN QueryError
    ELSE IF ~IsDefined(response.InstanceStatuses) THEN Return(FALSE)
    ELSE IF Len(response.InstanceStatuses[1]) = 0 THEN Return(FALSE)
    ELSE LET s == response.InstanceStatuses[1][1] IN
         IF ~IsDefined(s.InstanceState) THEN Return(FALSE)
         ELSE Return(s.InstanceState[1].Name = Some("running"))

checkEC2StatusResult(response) ==
    IF response.httpStatusCode # Some(HttpOk) THEN QueryError
    ELSE IF ~IsDefined(response.InstanceStatuses) THEN TypeError("0")
    ELSE IF Len(response.InstanceStatuses[1]) = 0 THEN TypeError("InstanceState")
    ELSE LET s == response.InstanceStatuses[1][1] IN
         IF ~IsDefined(s.InstanceState) THEN TypeError("Name")
         ELSE Return(s.InstanceState[1].Name = Some("running"))

StartError == Throw("Error", "Could not start the EC2 instance")

startEC2InstanceResult(response) ==
    IF response.httpStatusCode # Some(HttpOk) THEN StartError ELSE Return(Undefined)

StopError == Throw("Error", "Could not stop the EC2 instance")

stopEC2InstanceResult(response) ==
    IF response.httpStatusCode # Some(HttpOk) THEN StopError ELSE Return(Undefined)

TerminateError == Throw("Error", "Could not terminate the EC2 instance")

\* The mutant: the comparison inverted, so that success throws.
terminateEC2InstanceResultInverted(response) ==
    IF response.httpStatusCode = Some(HttpOk) THEN TerminateError ELSE Return(Undefined)

\* The mutant: the response's status is not checked.
terminateEC2InstanceResultUnchecked(response) == Return(Undefined)

terminateEC2InstanceResult(response) ==
    IF response.httpStatusCode # Some(HttpOk) THEN TerminateError ELSE Return(Undefined)

----------------------------------------------------------------------------
(* The compute provider: the owner of the instances' states.  It handles a *)
(* request when it is sent; what it does to the instance the request is    *)
(* about, and the responses it may give, depend on that instance's state.  *)
(* A provider operation is the set of (response, state of the instance     *)
(* after) pairs the provider may answer with.                              *)

MaxInstances == 2

InstanceIds == {"i-" \o ToString(n) : n \in 1..MaxInstances}

StateNames == {"pending", "running", "stopping", "stopped", "shutting-down", "terminated"}

\* The status codes other than success; a response may also carry none.
FailureStatuses == {Some(202), Some(400), Some(500), Undefined}

LaunchTimes == {[sec |-> 1700000000, ms |-> 7], [sec |-> 951782400, ms |-> 0]}

InstanceFields == {"InstanceId", "ImageId", "InstanceType", "KeyName", "LaunchTime"}

CompleteInstance(id, params, time) ==
    [InstanceId   |-> Some(id),
     ImageId      |-> Some(params.ImageId),
     InstanceType |-> Some(params.InstanceType),
     KeyName      |-> Some(params.KeyName),
     LaunchTime   |-> Some(time)]

\* The payloads of a create-instance response: complete, one field short,
\* an empty list, or no list.
InstancePayloads(id, params, time) ==
    LET full == CompleteInstance(id, params, time) IN
    {Some(<<full>>), Some(<< >>), Undefined}
        \cup {Some(<<[full EXCEPT ![f] = Undefined]>>) : f \in InstanceFields}

IsComplete(payload) ==
    /\ IsDefined(payload)
    /\ Len(payload[1]) > 0
    /\ \A f \in InstanceFields : IsDefined(payload[1][1][f])

\* The id a new instance gets: the first one not in use, if there is one.
FirstFree(st) ==
    IF \A id \in InstanceIds : st[id] # "none" THEN Undefined
    ELSE Some("i-" \o ToString(CHOOSE n \in 1..MaxInstances :
                        /\ st["i-" \o ToString(n)] = "none"
                        /\ \A m \in 1..(n - 1) : st["i-" \o ToString(m)] # "none"))

\* A create request: refused, or (when an id is free) accepted, the new
\* instance pending.
RunInstances(instance, params) ==
    {[response |-> [httpStatusCode |-> c, Instances |-> Undefined], after |-> "none"]
        : c \in FailureStatuses}
    \cup
    (IF ~IsDefined(instance) THEN {}
     ELSE LET id == instance[1] IN
          {[response |-> [httpStatusCode |-> c, Instances |-> Some(<<CompleteInstance(id, params, t)>>)],
            after |-> "none"] : c \in FailureStatuses \ {Undefined}, t \in LaunchTimes}
          \cup
          UNION {{[response |-> [httpStatusCode |-> Some(HttpOk), Instances |-> payload],
                   after    |-> "pending"]
                    : payload \in InstancePayloads(id, params, t)} : t \in LaunchTimes})

StatusPayloads(name) ==
    {Undefined, Some(<< >>),
     Some(<<[InstanceState |-> Undefined]>>),
     Some(<<[InstanceState |-> Some([Name |-> Undefined])]>>),
     Some(<<[InstanceState |-> Some([Name |-> Some(name)])]>>)}

\* The state name a status response reports, when it reports one.
ReportedName(response) ==
    response.InstanceStatuses[1][1].InstanceState[1].Name[1]

ReportsName(response) ==
    /\ IsDefined(response.InstanceStatuses)
    /\ Len(response.InstanceStatuses[1]) > 0
    /\ IsDefined(response.InstanceStatuses[1][1].InstanceState)
    /\ IsDefined(response.InstanceStatuses[1][1].InstanceState[1].Name)

\* A status query of an instance in state `name`.
DescribeInstanceStatus(name) ==
    {[response |-> [httpStatusCode |-> c, InstanceStatuses |-> Undefined], after |-> name]
        : c \in FailureStatuses}
    \cup
    (IF name = "none" THEN {}
     ELSE {[response |-> [httpStatusCode |-> Some(HttpOk), InstanceStatuses |-> payload],
            after    |-> name] : payload \in StatusPayloads(name)})

\* A transition request for an instance in state `name`: refused (nothing
\* changes), or accepted when the state is one of `from`, moving it as
\* `move` says.
Transition(name, from, move) ==
    {[response |-> [httpStatusCode |-> c], after |-> name] : c \in FailureStatuses}
    \cup
    (IF name \notin from THEN {}
     ELSE {[response |-> [httpStatusCode |-> Some(HttpOk)], after |-> move[name]]})

StartInstances(name) ==
    Transition(name, {"stopped", "pending", "running"},
               [n \in StateNames |-> IF n = "stopped" THEN "pending" ELSE n])

StopInstances(name) ==
    Transition(name, {"pending", "running", "stopping", "stopped"},
               [n \in StateNames |-> IF n \in {"pending", "running"} THEN "stopping" ELSE n])

TerminateInstances(name) ==
    Transition(name, StateNames,
               [n \in StateNames |-> IF n = "terminated" THEN n ELSE "shutting-down"])

\* The transitions the provider completes on its own.
Settles(name) ==
    CASE name = "pending"       -> "running"
      [] name = "stopping"      -> "stopped"
      [] name = "shutting-down" -> "terminated"
      [] OTHER                  -> name

\* What the provider may answer to the request of a call of `op`, about the
\* instance `instance` (none for a create request when no id is free), in
\* state `seen`.
Handles(op, request, instance, seen) ==
    CASE op = "createEC2Instance"    -> RunInstances(instance, request)
      [] op = "checkEC2Status"       -> DescribeInstanceStatus(seen)
      [] op = "startEC2Instance"     -> StartInstances(seen)
      [] op = "stopEC2Instance"      -> StopInstances(seen)
      [] op = "terminateEC2Instance" -> TerminateInstances(seen)

\* A provider that answers with success and a complete payload.
WellBehaved(r) ==
    /\ r.response.httpStatusCode = Some(HttpOk)
    /\ "Instances" \in DOMAIN r.response => IsComplete(r.response.Instances)
    /\ "InstanceStatuses" \in DOMAIN r.response => ReportsName(r.response)

\* The errors ec2.send rejects with when no response arrives.
SendErrors == {[name |-> "TimeoutError", message |-> "socket hang up"]}

\* How the promise of ec2.send settles: resolved with a response, or (not
\* under the well-behaved provider) rejected, the request lost or handled.
Answers(all, onlyWellBehaved) ==
    IF onlyWellBehaved
    THEN {[response |-> Some(r.response), rejection |-> Undefined, after |-> r.after]
            : r \in {x \in all : WellBehaved(x)}}
    ELSE {[response |-> Some(r.response), rejection |-> Undefined, after |-> r.after]
            : r \in all}
         \cup {[response |-> Undefined, rejection |-> Some(e), after |-> n]
                 : e \in SendErrors, n \in {r.after : r \in all}}

----------------------------------------------------------------------------
(* Configurations and artifact locators *)

FullEnv ==
    [n \in EnvNames |->
        CASE n = "AWS_ACCESS_KEY_ID"     -> Some("AKIAEXAMPLE")
          [] n = "AWS_SECRET_ACCESS_KEY" -> Some("secret/Key+1")
          [] n = "AWS_ROLE_ARN"          -> Some("arn:aws:iam::1:instance-profile/p0tion")
          [] n = "AWS_AMI_ID"            -> Some("ami-0abc")
          [] n = "AWS_KEY_NAME"          -> Some("p0tion-key")
          [] n = "AWS_REGION"            -> Some("eu-west-1")]

\* Every configuration with each variable unset, empty or set as in FullEnv.
AllEnvs ==
    {e \in [EnvNames -> {Undefined, Some("")} \cup {FullEnv[n] : n \in EnvNames}] :
        \A n \in EnvNames : Truthy(e[n]) => e[n] = FullEnv[n]}

\* The configurations the lifecycle specification starts from: complete,
\* and one without the key-pair name.
SomeEnvs == {FullEnv, [FullEnv EXCEPT !["AWS_KEY_NAME"] = Undefined]}

ValidEnvs == {e \in AllEnvs : \A n \in MandatoryEnvNames : Truthy(e[n])}

Locators == {"bucket/r1cs", "bucket/zkey", "bucket/ptau", "bucket/out.txt", "my bucket/a b"}

----------------------------------------------------------------------------
(* State, calls and the operations as actions *)

\* The calls in flight the model follows at a time.
MaxInFlight == 2

NoInstances == [id \in InstanceIds |-> "none"]

\* No call has ended since the last call was made.
NoCall ==
    [op |-> "none", request |-> Undefined, instance |-> Undefined,
     changed |-> FALSE, response |-> Undefined, rejection |-> Undefined,
     outcome |-> Return(Undefined), envBefore |-> env]

\* A call that ran to its end without an await.
Event(op, request, outcome) ==
    [NoCall EXCEPT !.op = op, !.request = request, !.outcome = outcome]

\* What ec2.send may settle with, after the provider has handled the request
\* and left the instance in state `moved`.
Settlements(answers, moved) ==
    {[response |-> a.response, rejection |-> a.rejection]
        : a \in {x \in answers : x.after = moved}}

\* A call suspended at `await ec2.send(command)`: its request, and what the
\* provider did with it: the instance it is about, whether it changed the
\* instance's state, and what it may answer.
Sent(op, request, instance, changed, settlements) ==
    [op |-> op, request |-> request, instance |-> instance,
     changed |-> changed, settlements |-> settlements, envBefore |-> env]

\* The call runs to `await ec2.send(command)`: the request goes to the
\* provider, which handles it, and the call is suspended.
Send(op, request, instance, onlyWellBehaved) ==
    /\ BagCardinality(inflight) < MaxInFlight
    /\ LET seen    == IF IsDefined(instance) THEN instState[instance[1]] ELSE "none"
           answers == Answers(Handles(op, request, instance, seen), onlyWellBehaved)
       IN  \E moved \in {a.after : a \in answers} :
              /\ inflight' = inflight (+) SetToBag({Sent(op, request, instance, moved # seen,
                                                         Settlements(answers, moved))})
              /\ instState' = IF IsDefined(instance)
                              THEN [instState EXCEPT ![instance[1]] = moved]
                              ELSE instState
    /\ last' = NoCall
    /\ UNCHANGED env

\* What the operation does with the response once its await resumes.
ResultOf(op, response) ==
    CASE op = "createEC2Instance"    -> createEC2InstanceResult(response)
      [] op = "checkEC2Status"       -> checkEC2StatusResult(response)
      [] op = "startEC2Instance"     -> startEC2InstanceResult(response)
      [] op = "stopEC2Instance"      -> stopEC2InstanceResult(response)
      [] op = "terminateEC2Instance" -> terminateEC2InstanceResult(response)

\* ec2.send settles for one of the calls of `op` in flight and the call
\* resumes: a rejection propagates, a response is handled by the rest of the
\* function.
Resume(op) ==
    /\ \E c \in BagToSet(inflight) :
        /\ c.op = op
        /\ \E a \in c.settlements :
            /\ last' = [op |-> c.op, request |-> Some(c.request), instance |-> c.instance,
                        changed |-> c.changed,
                        response |-> a.response, rejection |-> a.rejection,
                        outcome |-> IF IsDefined(a.rejection)
                                    THEN Throw(a.rejection[1].name, a.rejection[1].message)
                                    ELSE ResultOf(c.op, a.response[1]),
                        envBefore |-> c.envBefore]
            /\ inflight' = inflight (-) SetToBag({c})
    /\ UNCHANGED <<env, instState>>

FreeCaller ==
    [pc |-> "free", instance |-> Undefined, firstPoll |-> Undefined,
     lastPoll |-> Undefined, finalSaw |-> Undefined, finalPoll |-> Undefined]

InitWith(envs, states, c) ==
    /\ env \in envs
    /\ instState \in states
    /\ inflight = EmptyBag
    /\ last = NoCall
    /\ caller = c

\* getAWSVariables()
DoGetAWSVariables ==
    /\ last' = Event("getAWSVariables", Undefined, getAWSVariables(env))
    /\ UNCHANGED <<env, instState, inflight>>

\* createEC2Client(): an async function without an await.
DoCreateEC2Client ==
    /\ last' = Event("createEC2Client", Undefined, createEC2Client(env))
    /\ UNCHANGED <<env, instState, inflight>>

\* generateVMCommand(r1csPath, zKeyPath, ptauPath, verificationTranscriptPath)
DoGenerateVMCommand(r, z, p, t) ==
    /\ last' = Event("generateVMCommand", Some(<<r, z, p, t>>),
                     Return(generateVMCommand(r, z, p, t)))
    /\ UNCHANGED <<env, instState, inflight>>

\* determineVMSpecs(circuitConstraints): an async function with an empty body.
DoDetermineVMSpecs(circuitConstraints) ==
    /\ last' = Event("determineVMSpecs", Some(circuitConstraints), Return(Undefined))
    /\ UNCHANGED <<env, instState, inflight>>

\* createEC2Instance(ec2), up to its await: it throws at once when
\* getAWSVariables does, else it sends the request.
DoCreateEC2InstanceCall(onlyWellBehaved) ==
    LET v == getAWSVariables(env) IN
    IF v.kind = "throw"
    THEN /\ last' = Event("createEC2Instance", Undefined, v)
         /\ UNCHANGED <<env, instState, inflight>>
    ELSE Send("createEC2Instance", createEC2InstanceParams(v.value),
              FirstFree(instState), onlyWellBehaved)

\* createEC2Instance, from its await on.
DoCreateEC2InstanceReturn == Resume("createEC2Instance")

\* checkEC2Status(ec2Client, instanceId), up to its await.
DoCheckEC2StatusCall(instanceId, onlyWellBehaved) ==
    Send("checkEC2Status", DescribeRequest(instanceId), Some(instanceId), onlyWellBehaved)

\* checkEC2Status, from its await on.
DoCheckEC2StatusReturn == Resume("checkEC2Status")

\* startEC2Instance(ec2, instanceId), up to its await.
DoStartEC2InstanceCall(instanceId, onlyWellBehaved) ==
    Send("startEC2Instance", InstanceRequest(instanceId), Some(instanceId), onlyWellBehaved)

\* startEC2Instance, from its await on.
DoStartEC2InstanceReturn == Resume("startEC2Instance")

\* stopEC2Instance(ec2, instanceId), up to its await.
DoStopEC2InstanceCall(instanceId, onlyWellBehaved) ==
    Send("stopEC2Instance", InstanceRequest(instanceId), Some(instanceId), onlyWellBehaved)

\* stopEC2Instance, from its await on.
DoStopEC2InstanceReturn == Resume("stopEC2Instance")

\* terminateEC2Instance(ec2, instanceId), up to its await.
DoTerminateEC2InstanceCall(instanceId, onlyWellBehaved) ==
    Send("terminateEC2Instance", InstanceRequest(instanceId), Some(instanceId),
         onlyWellBehaved)

\* terminateEC2Instance, from its await on.
DoTerminateEC2InstanceReturn ==
    Resume("terminateEC2Instance")

\* The provider completes a transition of an instance, whatever calls are in
\* flight.
DoProviderSettles(instanceId) ==
    /\ Settles(instState[instanceId]) # instState[instanceId]
    /\ instState' = [instState EXCEPT ![instanceId] = Settles(instState[instanceId])]
    /\ UNCHANGED <<env, inflight, last>>

----------------------------------------------------------------------------
(* Spec: the exported operations called in any order, also while earlier   *)
(* calls are in flight, with any instance id, against a provider that may  *)
(* answer anything or not at all.                                          *)

Init == InitWith(SomeEnvs, {NoInstances}, FreeCaller)

\* The calls of generateVMCommand made next to the calls to the provider.
ScriptCalls ==
    {<<"bucket/r1cs", "bucket/zkey", "bucket/ptau", "bucket/out.txt">>,
     <<"my bucket/a b", "bucket/zkey", "bucket/r1cs", "bucket/r1cs">>}

CircuitConstraints == {"1000000", ""}

GetAWSVariables == DoGetAWSVariables /\ UNCHANGED caller

CreateEC2Client == DoCreateEC2Client /\ UNCHANGED caller

GenerateVMCommandCall ==
    \E a \in ScriptCalls : DoGenerateVMCommand(a[1], a[2], a[3], a[4]) /\ UNCHANGED caller

DetermineVMSpecs ==
    \E c \in CircuitConstraints : DoDetermineVMSpecs(c) /\ UNCHANGED caller

CreateEC2InstanceCall == DoCreateEC2InstanceCall(FALSE) /\ UNCHANGED caller

CreateEC2InstanceReturn == DoCreateEC2InstanceReturn /\ UNCHANGED caller

CheckEC2StatusCall ==
    \E id \in InstanceIds : DoCheckEC2StatusCall(id, FALSE) /\ UNCHANGED caller

CheckEC2StatusReturn == DoCheckEC2StatusReturn /\ UNCHANGED caller

StartEC2InstanceCall ==
    \E id \in InstanceIds : DoStartEC2InstanceCall(id, FALSE) /\ UNCHANGED caller

StartEC2InstanceReturn == DoStartEC2InstanceReturn /\ UNCHANGED caller

StopEC2InstanceCall ==
    \E id \in InstanceIds : DoStopEC2InstanceCall(id, FALSE) /\ UNCHANGED caller

StopEC2InstanceReturn == DoStopEC2InstanceReturn /\ UNCHANGED caller

TerminateEC2InstanceCall ==
    \E id \in InstanceIds : DoTerminateEC2InstanceCall(id, FALSE) /\ UNCHANGED caller

TerminateEC2InstanceReturn == DoTerminateEC2InstanceReturn /\ UNCHANGED caller

ProviderSettles == \E id \in InstanceIds : DoProviderSettles(id) /\ UNCHANGED caller

Next ==
    \/ GetAWSVariables
    \/ CreateEC2Client
    \/ GenerateVMCommandCall
    \/ DetermineVMSpecs
    \/ CreateEC2InstanceCall
    \/ CreateEC2InstanceReturn
    \/ CheckEC2StatusCall
    \/ CheckEC2StatusReturn
    \/ StartEC2InstanceCall
    \/ StartEC2InstanceReturn
    \/ StopEC2InstanceCall
    \/ StopEC2InstanceReturn
    \/ TerminateEC2InstanceCall
    \/ TerminateEC2InstanceReturn
    \/ ProviderSettles

Spec == Init /\ [][Next]_vars

----------------------------------------------------------------------------
(* SpecResolve: getAWSVariables under every configuration. *)

InitResolve == InitWith(AllEnvs, {NoInstances}, FreeCaller)

NextResolve == GetAWSVariables

SpecResolve == InitResolve /\ [][NextResolve]_vars

----------------------------------------------------------------------------
(* SpecScript: generateVMCommand with every choice of the four locators. *)

InitScript == InitWith({FullEnv}, {NoInstances}, FreeCaller)

GenerateVMCommand ==
    \E r \in Locators, z \in Locators, p \in Locators, t \in Locators :
        DoGenerateVMCommand(r, z, p, t) /\ UNCHANGED caller

NextScript == GenerateVMCommand

SpecScript == InitScript /\ [][NextScript]_vars

----------------------------------------------------------------------------
(* SpecE2E: the end-to-end caller.  It resolves the credentials, creates   *)
(* the client, creates an instance, polls it until a poll returns true,    *)
(* terminates it and polls once more, awaiting each call; a step that      *)
(* throws ends the run.  The provider answers every request with success   *)
(* and a complete payload, moves the instance from pending to running once *)
(* it has answered a poll, and completes the shutdown once it has accepted *)
(* the terminate.  It may hold instances of earlier runs.                  *)

StartingCaller == [FreeCaller EXCEPT !.pc = "resolve"]

InitE2E ==
    InitWith(ValidEnvs,
             {st \in [InstanceIds -> {"none", "running", "terminated"}] :
                 \E id \in InstanceIds : st[id] = "none"},
             StartingCaller)

\* The caller's next position: `next` if the step returned, "failed" if not.
After(outcome, next) == IF outcome.kind = "throw" THEN "failed" ELSE next

CallerInstanceId == caller.instance[1].InstanceId[1]

\* The caller awaits each call: it makes none while one is in flight.
Awaited == inflight = EmptyBag

E2EResolve ==
    /\ caller.pc = "resolve"
    /\ DoGetAWSVariables
    /\ caller' = [caller EXCEPT !.pc = After(last'.outcome, "client")]

E2EClient ==
    /\ caller.pc = "client"
    /\ DoCreateEC2Client
    /\ caller' = [caller EXCEPT !.pc = After(last'.outcome, "provision")]

E2EProvisionCall ==
    /\ caller.pc = "provision"
    /\ Awaited
    /\ DoCreateEC2InstanceCall(TRUE)
    /\ caller' = [caller EXCEPT !.pc = After(last'.outcome, "provision")]

E2EProvisionReturn ==
    /\ caller.pc = "provision"
    /\ DoCreateEC2InstanceReturn
    /\ caller' = [caller EXCEPT !.pc = After(last'.outcome, "poll"),
                                !.instance = Some(last'.outcome.value)]

\* One turn of the caller's loop: while (!(await checkEC2Status(...))) wait.
E2EPollCall ==
    /\ caller.pc = "poll"
    /\ Awaited
    /\ DoCheckEC2StatusCall(CallerInstanceId, TRUE)
    /\ UNCHANGED caller

E2EPollReturn ==
    /\ caller.pc = "poll"
    /\ DoCheckEC2StatusReturn
    /\ caller' = [caller EXCEPT
                    !.pc = IF last'.outcome.kind = "throw" THEN "failed"
                           ELSE IF last'.outcome.value THEN "terminate" ELSE "poll",
                    !.firstPoll = IF IsDefined(caller.firstPoll) THEN caller.firstPoll
                                  ELSE Some(last'.outcome.value),
                    !.lastPoll = Some(last'.outcome.value)]

E2ETerminateCall ==
    /\ caller.pc = "terminate"
    /\ Awaited
    /\ DoTerminateEC2InstanceCall(CallerInstanceId, TRUE)
    /\ UNCHANGED caller

E2ETerminateReturn ==
    /\ caller.pc = "terminate"
    /\ DoTerminateEC2InstanceReturn
    /\ caller' = [caller EXCEPT !.pc = After(last'.outcome, "finalpoll")]

E2EFinalPollCall ==
    /\ caller.pc = "finalpoll"
    /\ Awaited
    /\ DoCheckEC2StatusCall(CallerInstanceId, TRUE)
    /\ UNCHANGED caller

E2EFinalPollReturn ==
    /\ caller.pc = "finalpoll"
    /\ DoCheckEC2StatusReturn
    /\ caller' = [caller EXCEPT !.pc = After(last'.outcome, "done"),
                                !.finalSaw = Some(ReportedName(last'.response[1])),
                                !.finalPoll = Some(last'.outcome.value)]

\* The provider moves the caller's instance on: to running once it has
\* answered a poll, to terminated once it has accepted the terminate.
E2EProviderSettles ==
    /\ \/ caller.pc = "poll" /\ (IsDefined(caller.firstPoll) \/ ~Awaited)
       \/ caller.pc = "terminate" /\ ~Awaited
       \/ caller.pc = "finalpoll"
    /\ DoProviderSettles(CallerInstanceId)
    /\ UNCHANGED caller

E2ECallerStep ==
    \/ E2EResolve
    \/ E2EClient
    \/ E2EProvisionCall
    \/ E2EProvisionReturn
    \/ E2EPollCall
    \/ E2EPollReturn
    \/ E2ETerminateCall
    \/ E2ETerminateReturn
    \/ E2EFinalPollCall
    \/ E2EFinalPollReturn

NextE2E == E2ECallerStep \/ E2EProviderSettles

\* The caller keeps taking its steps (every answer arrives) and the provider
\* completes its transitions.
SpecE2E ==
    /\ InitE2E
    /\ [][NextE2E]_vars
    /\ WF_vars(E2ECallerStep)
    /\ WF_vars(E2EProviderSettles)

----------------------------------------------------------------------------
(* Properties *)

\* A call of op has just returned or thrown, ec2.send having resolved with a
\* response.
Answered(op) == last.op = op /\ IsDefined(last.response)

Created == Answered("createEC2Instance")

LifecycleOps ==
    {"checkEC2Status", "startEC2Instance", "stopEC2Instance", "terminateEC2Instance"}

\* The error each operation on an existing instance throws on a non-success
\* response.
ErrorOf(op) ==
    CASE op = "checkEC2Status"       -> Throw("Error", "Could not get the status of the EC2 instance")
      [] op = "startEC2Instance"     -> Throw("Error", "Could not start the EC2 instance")
      [] op = "stopEC2Instance"      -> Throw("Error", "Could not stop the EC2 instance")
      [] op = "terminateEC2Instance" -> Throw("Error", "Could not terminate the EC2 instance")

\* C1: createEC2Instance returns a descriptor only if the response's status
\* is 200; for every other status it throws the provisioning error and
\* returns nothing.
C1_DescriptorOnlyOnSuccess ==
    last.op = "createEC2Instance" =>
        /\ last.outcome.kind = "return" =>
              IsDefined(last.response) /\ last.response[1].httpStatusCode = Some(200)
        /\ (Created /\ last.response[1].httpStatusCode # Some(200)) =>
              /\ last.outcome = Throw("Error", "Could not create a new EC2 instance")
              /\ last.outcome.value = Undefined

\* A non-200 response that carries a complete instance payload was answered
\* with the provisioning error.
C1_Witness ==
    /\ Created
    /\ last.response[1].httpStatusCode = Some(202)
    /\ IsComplete(last.response[1].Instances)
    /\ last.outcome = Throw("Error", "Could not create a new EC2 instance")

\* C2 (as claimed, whatever the error thrown): a 200 response whose payload
\* lacks the instance entry or one of its five fields makes createEC2Instance
\* fail, and no returned descriptor has a field missing.
C2_IncompletePayloadFails ==
    /\ (Created /\ last.response[1].httpStatusCode = Some(200)
             /\ ~IsComplete(last.response[1].Instances)) =>
          last.outcome.kind = "throw"
    /\ (last.op = "createEC2Instance" /\ last.outcome.kind = "return") =>
          \A f \in InstanceFields : IsDefined(last.outcome.value[f])

\* C3: on a 200 response that reports a state name, checkEC2Status returns
\* a boolean, true exactly when the name is "running".
C3_TrueIffRunning ==
    (Answered("checkEC2Status") /\ last.response[1].httpStatusCode = Some(200)
        /\ ReportsName(last.response[1])) =>
        /\ last.outcome.kind = "return"
        /\ last.outcome.value = (ReportedName(last.response[1]) = "running")
        /\ ReportedName(last.response[1]) \in
              {"pending", "stopping", "stopped", "shutting-down", "terminated"}
              => last.outcome.value = FALSE

\* A poll of a running instance returned true.
C3_Witness ==
    /\ Answered("checkEC2Status")
    /\ last.response[1].httpStatusCode = Some(200)
    /\ ReportsName(last.response[1])
    /\ ReportedName(last.response[1]) = "running"
    /\ last.outcome = Return(TRUE)

\* C4: with the five mandatory variables set (and not empty), getAWSVariables
\* returns them, non-empty, with the configured region or "us-east-1" when
\* there is none; with any of the five missing it throws the configuration
\* error.
C4_ResolveAllOrNothing ==
    last.op = "getAWSVariables" =>
        IF \A n \in MandatoryEnvNames : IsDefined(env[n]) /\ env[n] # Some("")
        THEN /\ last.outcome.kind = "return"
             /\ LET v == last.outcome.value IN
                /\ Some(v.accessKeyId) = env["AWS_ACCESS_KEY_ID"]
                /\ Some(v.secretAccessKey) = env["AWS_SECRET_ACCESS_KEY"]
                /\ Some(v.roleArn) = env["AWS_ROLE_ARN"]
                /\ Some(v.amiId) = env["AWS_AMI_ID"]
                /\ Some(v.keyName) = env["AWS_KEY_NAME"]
                /\ \A f \in {"accessKeyId", "secretAccessKey", "roleArn", "amiId", "keyName"} :
                      v[f] # ""
                /\ v.region = IF env["AWS_REGION"] \in {Undefined, Some("")}
                              THEN "us-east-1" ELSE env["AWS_REGION"][1]
        ELSE /\ last.outcome.kind = "throw"
             /\ last.outcome.name = "Error"
             /\ StartsWith(last.outcome.message, "AWS related environment variables are not set")
             /\ last.outcome.value = Undefined

\* getAWSVariables was called with only the key-pair name removed, and threw.
C4_Witness ==
    /\ last.op = "getAWSVariables"
    /\ env = [FullEnv EXCEPT !["AWS_KEY_NAME"] = Undefined]
    /\ last.outcome.kind = "throw"

\* C5: checkEC2Status, startEC2Instance, stopEC2Instance and
\* terminateEC2Instance, answered with any status but 200, throw their error,
\* and the call has left the provider's instances and the process's
\* configuration as they were: the provider, handling the request, changed
\* no instance's state (what the provider does by itself or for other calls
\* while the call is in flight is not the call's doing).
C5_FailureChangesNothing ==
    \A op \in LifecycleOps :
        (Answered(op) /\ last.response[1].httpStatusCode # Some(200)) =>
            /\ last.outcome = ErrorOf(op)
            /\ ~last.changed
            /\ env = last.envBefore

\* A terminate of a running instance was refused with status 500: it threw,
\* the provider changed nothing and the instance is still running.
C5_Witness ==
    /\ Answered("terminateEC2Instance")
    /\ last.response[1].httpStatusCode = Some(500)
    /\ ~last.changed
    /\ instState[last.instance[1]] = "running"
    /\ last.outcome.kind = "throw"

IsVerification(statement) == StartsWith(statement, "snarkjs zkey verify ")

IsDownload(statement) == StartsWith(statement, "aws s3 cp s3://")

IsUpload(statement) == StartsWith(statement, "aws s3 cp ") /\ ~IsDownload(statement)

Verifications(seq) == {i \in 1..Len(seq) : IsVerification(seq[i])}

Uploads(seq) == {i \in 1..Len(seq) : IsUpload(seq[i])}

Downloads(seq) == {i \in 1..Len(seq) : IsDownload(seq[i])}

\* C6: the sequence generateVMCommand returns holds exactly one verification
\* statement and exactly one upload, the verification after all three
\* downloads and the upload after the verification; the downloads read the
\* three input locators of the call and the upload writes its output locator.
C6_OneVerifyOneUploadInOrder ==
    last.op = "generateVMCommand" =>
        LET seq == last.outcome.value
            arg == last.request[1]
            V   == Verifications(seq)
            U   == Uploads(seq)
            D   == Downloads(seq)
        IN  /\ Cardinality(V) = 1
            /\ Cardinality(U) = 1
            /\ Cardinality(D) = 3
            /\ \A d \in D, v \in V : d < v
            /\ \A v \in V, u \in U : v < u
            /\ \A k \in 1..3 :
                  \E d \in D : StartsWith(seq[d], "aws s3 cp s3://" \o arg[k] \o " /tmp/")
            /\ \A u \in U : seq[u] = "aws s3 cp /tmp/verify.txt s3://" \o arg[4]

\* generateVMCommand was called with the scenario's four locators.
C6_Witness ==
    /\ last.op = "generateVMCommand"
    /\ last.request = Some(<<"bucket/r1cs", "bucket/zkey", "bucket/ptau", "bucket/out.txt">>)
    /\ Len(last.outcome.value) = 12

\* The user-data payloads of the verification start-up script, over the
\* locators of the model.
VerificationUserData ==
    {ToBase64(BufferFrom(Join(generateVMCommand(r, z, p, t), "\n"))) :
        r \in Locators, z \in Locators, p \in Locators, t \in Locators}

\* C8 (as claimed): every create-instance request asks for exactly one
\* instance and carries the base64 of the verification start-up script.
C8_RequestCarriesVerificationScript ==
    (last.op = "createEC2Instance" /\ IsDefined(last.request)) =>
        /\ last.request[1].MinCount = 1
        /\ last.request[1].MaxCount = 1
        /\ last.request[1].UserData \in VerificationUserData

RECURSIVE WordsFrom(_, _, _)
\* The words of s[i..], split at spaces; word is the word being read.
WordsFrom(s, i, word) ==
    IF i > Len(s) THEN <<word>>
    ELSE IF CharAt(s, i) = " " THEN <<word>> \o WordsFrom(s, i + 1, "")
    ELSE WordsFrom(s, i + 1, word \o CharAt(s, i))

Words(s) == WordsFrom(s, 1, "")

LastWord(s) == Words(s)[Len(Words(s))]

\* C9 (as claimed): the verification statement names, for r1cs, ptau and
\* zkey, the paths the three downloads wrote to, and redirects to the path
\* the upload reads.
C9_VerifyReadsDownloadedPaths ==
    last.op = "generateVMCommand" =>
        LET seq    == last.outcome.value
            verify == Words(seq[CHOOSE i \in 1..Len(seq) : IsVerification(seq[i])])
            upload == Words(seq[CHOOSE i \in 1..Len(seq) : IsUpload(seq[i])])
            D      == Downloads(seq)
            first  == CHOOSE d \in D : \A e \in D : d <= e
            third  == CHOOSE d \in D : \A e \in D : d >= e
            second == CHOOSE d \in D : d \notin {first, third}
        IN  /\ verify[4] = LastWord(seq[first])
            /\ verify[5] = LastWord(seq[third])
            /\ verify[6] = LastWord(seq[second])
            /\ verify[7] = ">"
            /\ verify[8] = upload[4]

\* C10: a 200 status response with an empty or absent list of statuses makes
\* checkEC2Status throw a TypeError, not the query error; it returns a
\* boolean only when the list has an entry.
C10_NoStatusEntryIsTypeError ==
    (Answered("checkEC2Status") /\ last.response[1].httpStatusCode = Some(200)) =>
        /\ (~IsDefined(last.response[1].InstanceStatuses)
               \/ last.response[1].InstanceStatuses = Some(<< >>)) =>
              /\ last.outcome.kind = "throw"
              /\ last.outcome.name = "TypeError"
              /\ last.outcome # Throw("Error", "Could not get the status of the EC2 instance")
        /\ last.outcome.kind = "return" =>
              /\ IsDefined(last.response[1].InstanceStatuses)
              /\ Len(last.response[1].InstanceStatuses[1]) > 0
              /\ last.outcome.value \in BOOLEAN

\* A poll of an existing instance got a 200 response with an empty list.
C10_Witness ==
    /\ Answered("checkEC2Status")
    /\ last.response[1].httpStatusCode = Some(200)
    /\ last.response[1].InstanceStatuses = Some(<< >>)
    /\ last.outcome.name = "TypeError"

\* What the end-to-end run has shown so far: no step failed, the first poll
\* returned false, the loop ended on a poll that returned true, and the
\* final poll returned false, also when the provider reported "terminated".
E2ESafe ==
    /\ caller.pc # "failed"
    /\ IsDefined(caller.firstPoll) => caller.firstPoll = Some(FALSE)
    /\ caller.pc \in {"terminate", "finalpoll", "done"} => caller.lastPoll = Some(TRUE)
    /\ caller.pc = "done" =>
          /\ caller.finalPoll = Some(FALSE)
          /\ instState[CallerInstanceId] \in {"shutting-down", "terminated"}

\* C7: in the end-to-end run no step fails, the first poll returns false, a
\* later poll returns true and ends the loop, the terminate succeeds and the
\* final poll returns false; the run reaches its end.
C7_EndToEnd == []E2ESafe /\ <>(caller.pc = "done")

\* The run ended with a final poll that saw the instance terminated.
C7_Witness ==
    /\ caller.pc = "done"
    /\ caller.firstPoll = Some(FALSE)
    /\ caller.lastPoll = Some(TRUE)
    /\ caller.finalSaw = Some("terminated")
    /\ caller.finalPoll = Some(FALSE)

====
